---------------------------- MODULE Spec2Model ----------------------------
(***************************************************************************)
(* State-machine model of SortingVisualiser                                *)
(* (src/src/visualise/visualiser.py).                                      *)
(*                                                                         *)
(* A grid is a sequence of rows; a row is a sequence of length Columns.    *)
(* Python index k of a row or of a trace is position k+1 of the sequence.  *)
(* A swap-trace element is the pair <<i, j>> (a Python tuple); a snapshot- *)
(* trace element is <<v>>, one rank value (not a tuple).                    *)
(* visualise is modelled statement by statement: VisualiseCall is lines    *)
(* 103-113 / 128-131, SwapChunk and SnapChunk are one iteration of the     *)
(* while loops, VisualiseReturn is the loop exit and line 157.             *)
(***************************************************************************)
EXTENDS Integers, Sequences, FiniteSets, TLC

\* ---------------------------------------------------------------- bounds
Columns == 3        \* width of the image
MaxRows == 2        \* the image has 0..MaxRows rows
MaxPixel == 2       \* pixel values are 0..MaxPixel
MaxFrames == 4      \* num_frames arguments are -1..MaxFrames
MaxCalls == 2       \* calls of sort / visualise made on one object

VARIABLES
    rows,           \* self.rows
    original,       \* self.original
    replace_dict,   \* self.replace_dict
    replaced,       \* self.replaced
    swaps,          \* self.swaps
    max_swaps,      \* self.max_swaps
    pc,             \* "idle" | "swap_loop" | "snap_loop": position inside visualise
    num_frames,     \* local num_frames of visualise (after line 106)
    frames,         \* local frames of visualise
    swap_num,       \* local swap_num
    swap_step,      \* local swap_step
    remainder,      \* local remainder
    pos,            \* local pos (snapshot branch)
    chunks,         \* history: the slices [start, end) the loop has processed
    presort,        \* history: presort[k] is the row swaps[k] was recorded from
    calls           \* history: the calls made, their arguments, the grid they
                    \* found, their outcome and what they returned

vars == <<rows, original, replace_dict, replaced, swaps, max_swaps, pc,
          num_frames, frames, swap_num, swap_step, remainder, pos, chunks,
          presort, calls>>

locals == <<num_frames, frames, swap_num, swap_step, remainder, pos, chunks>>

\* ------------------------------------------------------- Python arithmetic
Min(a, b) == IF a < b THEN a ELSE b
Max(a, b) == IF a > b THEN a ELSE b
Abs(a) == IF a < 0 THEN 0 - a ELSE a

\* a // b for a >= 0 and b # 0: floor of the quotient
PyFloorDiv(a, b) ==
    IF b > 0 THEN a \div b
    ELSE 0 - ((a + Abs(b) - 1) \div Abs(b))

\* a % b for a >= 0 and b # 0: the result has the sign of b
PyMod(a, b) == a - b * PyFloorDiv(a, b)

\* int(a / b) for a >= 0 and b # 0: the quotient truncated toward zero
PyTruncDiv(a, b) ==
    IF b > 0 THEN a \div b
    ELSE 0 - (a \div Abs(b))

\* a slice index of a sequence of length n, as Python normalises it
PyIndex(i, n) == IF i < 0 THEN Max(n + i, 0) ELSE Min(i, n)

\* s[a:b]
PySlice(s, a, b) ==
    LET lo == PyIndex(a, Len(s))
        hi == PyIndex(b, Len(s))
    IN  IF lo >= hi THEN <<>> ELSE SubSeq(s, lo + 1, hi)

\* ------------------------------------------------------------- the inputs
Pixels == 0..MaxPixel
Ranks == 0..(Columns - 1)
Identity == [c \in 1..Columns |-> c - 1]
PermRows == {p \in [1..Columns -> Ranks] : \A v \in Ranks : \E c \in 1..Columns : p[c] = v}
\* the images tried: diagonal stripes of the pixel values, one image per phase
Images(R) ==
    {[i \in 1..R |-> [c \in 1..Columns |-> (k + i + c) % (MaxPixel + 1)]] : k \in Pixels}
NumFramesArgs == (0 - 1)..MaxFrames
SortMethodArgs == {"bubble_sort", "counting_sort", "my_sort", "no_such_sort"}

\* ------------------------------------------------------------- rank codec
\* mutant: rank j is mapped to the pixel of the next column
replace_with_integers_shifted(image) ==
    [replaced |-> [i \in 1..Len(image) |-> [c \in 1..Columns |-> c - 1]],
     replace_dict |-> [i \in 1..Len(image) |->
                         [j \in Ranks |-> image[i][((j + 1) % Columns) + 1]]]]

replace_with_integers(image) ==
    [replaced |-> [i \in 1..Len(image) |-> [c \in 1..Columns |-> c - 1]],
     replace_dict |-> [i \in 1..Len(image) |-> [j \in Ranks |-> image[i][j + 1]]]]

replace_with_pixels(grid, dict) ==
    [row \in 1..Len(grid) |-> [column \in 1..Columns |-> dict[row][grid[row][column]]]]

\* np.flip without an axis reverses the rows and, inside each row, the columns
reverse_image(grid) ==
    [i \in 1..Len(grid) |-> [c \in 1..Columns |-> grid[Len(grid) + 1 - i][Columns + 1 - c]]]

\* the grids np.random.shuffle can leave: every row some permutation of itself
randomise_image(grid) ==
    {g \in [1..Len(grid) -> PermRows] :
        \A i \in 1..Len(grid) : \A v \in Ranks :
            Cardinality({c \in 1..Columns : g[i][c] = v})
                = Cardinality({c \in 1..Columns : grid[i][c] = v})}


\* ------------------------------------------- the sorting functions (algos)
\* The bodies of src.visualise.algorithms are not in the source tree; these
\* follow the Trace Capture Contract: the function sorts the sequence it is
\* handed and returns the trace, swap pairs or the values of the row after
\* each pass.
SwapAt(arr, i, j) == [arr EXCEPT ![i + 1] = arr[j + 1], ![j + 1] = arr[i + 1]]

IsSorted(arr) == \A k \in 1..(Len(arr) - 1) : arr[k] <= arr[k + 1]

RECURSIVE bubble_from(_, _, _, _)
bubble_from(arr, trace, i, j) ==
    IF i >= Len(arr) THEN [array |-> arr, trace |-> trace]
    ELSE IF j >= Len(arr) - 1 - i THEN bubble_from(arr, trace, i + 1, 0)
    ELSE IF arr[j + 1] > arr[j + 2]
         THEN bubble_from(SwapAt(arr, j, j + 1), Append(trace, <<j, j + 1>>), i, j + 1)
         ELSE bubble_from(arr, trace, i, j + 1)

\* in place: the trace is the swaps made, in order
bubble_sort(array) == bubble_from(array, <<>>, 0, 0)

Snapshot(arr) == [k \in 1..Len(arr) |-> <<arr[k]>>]

RECURSIVE counting_emit(_, _, _)
counting_emit(array, v, out) ==
    IF v > Columns - 1 THEN out
    ELSE counting_emit(array, v + 1,
            out \o [k \in 1..Cardinality({c \in 1..Len(array) : array[c] = v}) |-> v])

\* out of place, one pass: the trace is the sorted row
counting_sort(array) ==
    LET out == counting_emit(array, 0, <<>>)
    IN  [array |-> out, trace |-> Snapshot(out)]

RECURSIVE pass_from(_, _)
pass_from(arr, j) ==
    IF j >= Len(arr) - 1 THEN arr
    ELSE IF arr[j + 1] > arr[j + 2] THEN pass_from(SwapAt(arr, j, j + 1), j + 1)
         ELSE pass_from(arr, j + 1)

RECURSIVE my_sort_from(_, _)
my_sort_from(arr, trace) ==
    IF IsSorted(arr) THEN [array |-> arr, trace |-> trace]
    ELSE LET next == pass_from(arr, 0)
         IN  my_sort_from(next, trace \o Snapshot(next))

\* out of place, as many passes as the row needs: the trace is the row after
\* each pass, so its length depends on the row (none for a sorted row)
my_sort(array) == my_sort_from(array, <<>>)

\* the keys of self.sorting_methods
RegistryKeys ==
    {"bubble_sort", "cocktail_sort", "selection_sort", "insertion_sort", "quick_sort",
     "heap_sort", "merge_sort", "radix_sort_lsd", "counting_sort", "my_sort"}

\* self.sorting_methods[sorting_method](row), for the functions modelled
sorting_methods(sorting_method, row) ==
    CASE sorting_method = "bubble_sort" -> bubble_sort(row)
      [] sorting_method = "counting_sort" -> counting_sort(row)
      [] sorting_method = "my_sort" -> my_sort(row)

\* ------------------------------------------------------------------- sort
\* mutant: the function is handed the grid's row itself and sorts it in place
sort_row_in_place(grid_row, sorting_method) ==
    LET result == sorting_methods(sorting_method, grid_row)
    IN  [temp_swaps |-> result.trace, grid_row |-> result.array]

\* lines 77-78 for one row: the function gets a copy, the grid's row stays
sort_row(grid_row, sorting_method) ==
    LET row == grid_row
        result == sorting_methods(sorting_method, row)
    IN  [temp_swaps |-> result.trace, grid_row |-> grid_row]

SeqMax(lens, start) ==
    LET S == {lens[k] : k \in 1..Len(lens)} \cup {start}
    IN  CHOOSE m \in S : \A x \in S : x <= m

\* the whole of sort(sorting_method): the outcome and the fields it leaves
sort(sorting_method) ==
    IF rows = 0
    THEN [outcome |-> "returned", swaps |-> swaps, max_swaps |-> max_swaps,
          replaced |-> replaced, presort |-> presort]
    ELSE IF sorting_method \notin RegistryKeys
    THEN [outcome |-> "KeyError", swaps |-> swaps, max_swaps |-> max_swaps,
          replaced |-> replaced, presort |-> presort]
    ELSE LET done == [r \in 1..rows |-> sort_row(replaced[r], sorting_method)]
             traces == [r \in 1..rows |-> done[r].temp_swaps]
         IN  [outcome |-> "returned",
              swaps |-> swaps \o traces,
              max_swaps |-> SeqMax([r \in 1..rows |-> Len(traces[r])], max_swaps),
              replaced |-> [r \in 1..rows |-> done[r].grid_row],
              presort |-> presort \o [r \in 1..rows |-> replaced[r]]]

\* --------------------------------------------------------------- replay
IsTuple(step) == Len(step) = 2

RECURSIVE apply_swaps(_, _)
apply_swaps(row, pairs) ==
    IF pairs = <<>> THEN row
    ELSE apply_swaps(SwapAt(row, pairs[1][1], pairs[1][2]), Tail(pairs))

\* mutant: each pair copies row[j] over row[i] instead of exchanging the two
RECURSIVE apply_overwrites(_, _)
apply_overwrites(row, pairs) ==
    IF pairs = <<>> THEN row
    ELSE apply_overwrites([row EXCEPT ![pairs[1][1] + 1] = row[pairs[1][2] + 1]],
                          Tail(pairs))

swap_pixels_overwriting(row, trace, start, end) ==
    apply_overwrites(row, PySlice(trace, start, end))

\* mutant: the last swap of every slice is left out
swap_pixels_short(row, trace, start, end) ==
    apply_swaps(row, PySlice(trace, start, end - 1))

\* mutant: a slice that reaches past the end of the trace applies nothing
swap_pixels_whole_only(row, trace, start, end) ==
    IF end > Len(trace) THEN row ELSE apply_swaps(row, PySlice(trace, start, end))

\* __swap_pixels for one row: the swaps of self.swaps[row][start:end], in order
swap_pixels(row, trace, start, end) == apply_swaps(row, PySlice(trace, start, end))

\* numpy's row[lo:hi] = values, 0 <= lo, hi <= Columns: the values fill the
\* slice when there are as many as cells, one value is broadcast to every
\* cell, anything else is a ValueError
numpy_assign(row, lo, hi, values) ==
    LET cells == Max(hi - lo, 0)
    IN  IF Len(values) = cells
        THEN [ok |-> TRUE,
              row |-> [c \in 1..Columns |->
                         IF c - 1 >= lo /\ c - 1 < hi THEN values[c - lo][1] ELSE row[c]]]
        ELSE IF Len(values) = 1
        THEN [ok |-> TRUE,
              row |-> [c \in 1..Columns |->
                         IF c - 1 >= lo /\ c - 1 < hi THEN values[1][1] ELSE row[c]]]
        ELSE [ok |-> FALSE, row |-> row]

\* lines 146-151 for one row
splice_row(row, trace, start, swap_end, p, pos_end) ==
    IF pos_end < p
    THEN LET swap_amount == Columns - p
             head == numpy_assign(row, p, Columns, PySlice(trace, start, start + swap_amount))
         IN  IF ~head.ok THEN head
             ELSE numpy_assign(head.row, 0, pos_end,
                               PySlice(trace, start + swap_amount, swap_end))
    ELSE numpy_assign(row, p, pos_end, PySlice(trace, start, swap_end))

\* the loop of line 145 from row r on: it stops at the first row that raises,
\* with the rows before it already written
RECURSIVE splice_rows(_, _, _, _, _, _)
splice_rows(grid, r, start, swap_end, p, pos_end) ==
    IF r > Len(grid) THEN [ok |-> TRUE, grid |-> grid]
    ELSE LET one == splice_row(grid[r], swaps[r], start, swap_end, p, pos_end)
             written == [grid EXCEPT ![r] = one.row]
         IN  IF ~one.ok THEN [ok |-> FALSE, grid |-> written]
             ELSE splice_rows(written, r + 1, start, swap_end, p, pos_end)

\* ------------------------------------------------------------ the actions
NoLocals ==
    /\ num_frames' = 0
    /\ frames' = <<>>
    /\ swap_num' = 0
    /\ swap_step' = 0
    /\ remainder' = 0
    /\ pos' = 0
    /\ chunks' = <<>>

Call(op, n, method, outcome) ==
    [op |-> op, num_frames |-> n, sort_method |-> method, entry |-> replaced,
     outcome |-> outcome, frames |-> <<>>, chunks |-> <<>>]

\* the running call ends: its outcome and what it returned
Finish(outcome, result, slices) ==
    [calls EXCEPT ![Len(calls)].outcome = outcome, ![Len(calls)].frames = result,
                  ![Len(calls)].chunks = slices]

Init ==
    /\ rows \in 0..MaxRows
    /\ original \in Images(rows)
    /\ replace_dict = replace_with_integers(original).replace_dict
    /\ \E randomise \in BOOLEAN, reverse \in BOOLEAN :
         \E shuffled \in (IF randomise
                          THEN randomise_image(replace_with_integers(original).replaced)
                          ELSE {replace_with_integers(original).replaced}) :
            replaced = IF reverse THEN reverse_image(shuffled) ELSE shuffled
    /\ swaps = <<>>
    /\ max_swaps = 0
    /\ pc = "idle"
    /\ num_frames = 0
    /\ frames = <<>>
    /\ swap_num = 0
    /\ swap_step = 0
    /\ remainder = 0
    /\ pos = 0
    /\ chunks = <<>>
    /\ presort = <<>>
    /\ calls = <<>>

\* sort(sorting_method), lines 75-82
Sort(sorting_method) ==
    /\ pc = "idle"
    /\ Len(calls) < MaxCalls
    /\ LET s == sort(sorting_method)
       IN  /\ swaps' = s.swaps
           /\ max_swaps' = s.max_swaps
           /\ replaced' = s.replaced
           /\ presort' = s.presort
           /\ calls' = Append(calls, Call("sort", 0, sorting_method, s.outcome))
    /\ UNCHANGED <<rows, original, replace_dict, pc, locals>>

\* mutant: visualise sorts on every call
implicit_sort_always(sort_method) == sort(sort_method)

\* lines 103-104: sort runs when self.swaps is empty, and only then
implicit_sort(sort_method) ==
    IF swaps = <<>> THEN sort(sort_method)
    ELSE [outcome |-> "returned", swaps |-> swaps, max_swaps |-> max_swaps,
          replaced |-> replaced, presort |-> presort]

\* visualise(n, sort_method) up to the first test of a while loop,
\* lines 103-113 and 128-132
VisualiseCall(n, sort_method) ==
    /\ pc = "idle"
    /\ Len(calls) < MaxCalls
    /\ LET s == implicit_sort(sort_method)
           nf == n - 1
           raised == IF s.outcome = "KeyError" THEN "KeyError"
                     ELSE IF s.swaps = <<>> THEN "IndexError"
                     ELSE IF s.swaps[1] = <<>> THEN "IndexError"
                     ELSE IF nf = 0 THEN "ZeroDivisionError"
                     ELSE "none"
       IN  /\ swaps' = s.swaps
           /\ max_swaps' = s.max_swaps
           /\ replaced' = s.replaced
           /\ presort' = s.presort
           /\ IF raised # "none"
              THEN /\ pc' = "idle"
                   /\ NoLocals
                   /\ calls' = Append(calls, Call("visualise", n, sort_method, raised))
              ELSE /\ num_frames' = nf
                   /\ frames' = <<replace_with_pixels(s.replaced, replace_dict)>>
                   /\ swap_num' = 0
                   /\ pos' = 0
                   /\ chunks' = <<>>
                   /\ remainder' = PyMod(s.max_swaps, nf)
                   /\ IF IsTuple(s.swaps[1][1])
                      THEN /\ pc' = "swap_loop"
                           /\ swap_step' = PyFloorDiv(s.max_swaps, nf)
                      ELSE /\ pc' = "snap_loop"
                           /\ swap_step' = PyTruncDiv(s.max_swaps, nf)
                   /\ calls' = Append(calls, Call("visualise", n, sort_method, "running"))
    /\ UNCHANGED <<rows, original, replace_dict>>

\* a loop that has made more frames than any call of the model can return is
\* followed no further
LoopCap == MaxFrames + 1

\* one iteration of the swap branch's loop, lines 114-125
SwapChunk ==
    /\ pc = "swap_loop"
    /\ swap_num <= max_swaps
    /\ Len(frames) <= LoopCap
    /\ LET extra == IF remainder > 0 THEN 1 ELSE 0
           grid == [row \in 1..rows |->
                      swap_pixels(replaced[row], swaps[row], swap_num,
                                  swap_num + swap_step + extra)]
       IN  /\ remainder' = IF remainder > 0 THEN remainder - 1 ELSE remainder
           /\ replaced' = grid
           /\ swap_num' = swap_num + swap_step + extra
           /\ frames' = Append(frames, replace_with_pixels(grid, replace_dict))
           /\ chunks' = Append(chunks, <<swap_num, swap_num + swap_step + extra>>)
    /\ UNCHANGED <<rows, original, replace_dict, swaps, max_swaps, pc, num_frames,
                   swap_step, pos, presort, calls>>

\* one iteration of the snapshot branch's loop, lines 133-155
SnapChunk ==
    /\ pc = "snap_loop"
    /\ swap_num < max_swaps
    /\ Len(frames) <= LoopCap
    /\ LET extra == IF remainder > 0 THEN 1 ELSE 0
           swap_end == swap_num + swap_step + extra
           pos_end == PyMod(pos + Len(PySlice(swaps[1], swap_num, swap_end)), Columns)
           spliced == splice_rows(replaced, 1, swap_num, swap_end, pos, pos_end)
       IN  /\ replaced' = spliced.grid
           /\ IF spliced.ok
              THEN /\ remainder' = IF remainder > 0 THEN remainder - 1 ELSE remainder
                   /\ swap_num' = swap_end
                   /\ pos' = pos_end
                   /\ frames' = Append(frames, replace_with_pixels(spliced.grid, replace_dict))
                   /\ chunks' = Append(chunks, <<swap_num, swap_end>>)
                   /\ UNCHANGED <<pc, num_frames, swap_step, calls>>
              ELSE /\ pc' = "idle"
                   /\ NoLocals
                   /\ calls' = Finish("ValueError", <<>>, Append(chunks, <<swap_num, swap_end>>))
    /\ UNCHANGED <<rows, original, replace_dict, swaps, max_swaps, presort>>

\* the loop test fails and visualise returns frames, line 157
VisualiseReturn ==
    /\ \/ pc = "swap_loop" /\ ~(swap_num <= max_swaps)
       \/ pc = "snap_loop" /\ ~(swap_num < max_swaps)
    /\ pc' = "idle"
    /\ calls' = Finish("returned", frames, chunks)
    /\ NoLocals
    /\ UNCHANGED <<rows, original, replace_dict, replaced, swaps, max_swaps, presort>>

Next ==
    \/ \E sorting_method \in SortMethodArgs : Sort(sorting_method)
    \/ \E n \in NumFramesArgs, sort_method \in SortMethodArgs : VisualiseCall(n, sort_method)
    \/ SwapChunk
    \/ SnapChunk
    \/ VisualiseReturn

Spec == Init /\ [][Next]_vars

\* ------------------------------------------- the codec, over every image
\* Every image over Pixels, built without randomise; one call is made on the
\* object, so that the whole set of images stays within reach.
AllImages(R) == [1..R -> [1..Columns -> Pixels]]

InitCodec ==
    /\ rows \in 0..MaxRows
    /\ original \in AllImages(rows)
    /\ replace_dict = replace_with_integers(original).replace_dict
    /\ \E reverse \in BOOLEAN :
         replaced = IF reverse THEN reverse_image(replace_with_integers(original).replaced)
                    ELSE replace_with_integers(original).replaced
    /\ swaps = <<>>
    /\ max_swaps = 0
    /\ pc = "idle"
    /\ num_frames = 0
    /\ frames = <<>>
    /\ swap_num = 0
    /\ swap_step = 0
    /\ remainder = 0
    /\ pos = 0
    /\ chunks = <<>>
    /\ presort = <<>>
    /\ calls = <<>>

FirstSort(sorting_method) == calls = <<>> /\ Sort(sorting_method)

FirstVisualise(n, sort_method) == calls = <<>> /\ VisualiseCall(n, sort_method)

NextCodec ==
    \/ \E sorting_method \in SortMethodArgs : FirstSort(sorting_method)
    \/ \E n \in NumFramesArgs, sort_method \in SortMethodArgs : FirstVisualise(n, sort_method)
    \/ SwapChunk
    \/ SnapChunk
    \/ VisualiseReturn

SpecCodec == InitCodec /\ [][NextCodec]_vars

\* ------------------------------------------------------------ the claims
LastCall == calls[Len(calls)]

\* the last call was visualise and it has returned its frames
Returned ==
    /\ calls # <<>>
    /\ LastCall.op = "visualise"
    /\ LastCall.outcome = "returned"

\* the traces replayed are swap traces (line 109)
SwapMode == swaps # <<>> /\ swaps[1] # <<>> /\ IsTuple(swaps[1][1])

IsPermutation(row) == \A v \in Ranks : Cardinality({c \in 1..Columns : row[c] = v}) = 1

\* C1: visualise(num_frames >= 2) returns exactly num_frames frames.
C1_FrameCount ==
    (Returned /\ LastCall.num_frames >= 2)
        => Len(LastCall.frames) = LastCall.num_frames

\* C2: at every frame of visualise, in both modes, every row of replaced
\* holds each rank 0..Columns-1 exactly once.
C2_PermutationEveryFrame ==
    (pc \in {"swap_loop", "snap_loop"} /\ LastCall.num_frames >= 2)
        => \A r \in 1..rows : IsPermutation(replaced[r])

\* C2 (amended): at every frame of a swap replay every row of replaced holds
\* each rank exactly once; at every frame of a snapshot replay every cell of
\* replaced holds a rank of 0..Columns-1, which a row may hold twice.
C2_PermutationSwapFrames ==
    /\ (pc = "swap_loop") => \A r \in 1..rows : IsPermutation(replaced[r])
    /\ (pc = "snap_loop") => \A r \in 1..rows : \A c \in 1..Columns : replaced[r][c] \in Ranks

C2_Witness ==
    /\ pc = "swap_loop"
    /\ rows = 2
    /\ Len(chunks) >= 2
    /\ \A r \in 1..rows : replaced[r] # LastCall.entry[r]

\* C3: a swap replay that starts from the pre-sort ranks and returns ends, in
\* every row, with the row's whole trace applied to its pre-sort ranks, which
\* is the ascending row; the last frame is that grid decoded.
C3_TraceConservation ==
    (/\ Returned
     /\ LastCall.num_frames >= 2
     /\ SwapMode
     /\ \A r \in 1..rows : LastCall.entry[r] = presort[r])
        => LET full == [r \in 1..rows |-> apply_swaps(presort[r], swaps[r])]
           IN  /\ \A r \in 1..rows : full[r] = Identity
               /\ replaced = full
               /\ LastCall.frames[Len(LastCall.frames)]
                    = replace_with_pixels(full, replace_dict)

C3_Witness ==
    /\ Returned
    /\ LastCall.num_frames >= 3
    /\ SwapMode
    /\ rows = 2
    /\ Len(swaps[1]) # Len(swaps[2])
    /\ \A r \in 1..rows : LastCall.entry[r] = presort[r] /\ presort[r] # Identity

\* the partition of [0, m) into n chunks: the first m mod n of size
\* (m div n) + 1, the rest of size m div n
ChunkStart(m, n, i) == (i - 1) * (m \div n) + Min(i - 1, m % n)
ExpectedChunks(m, n) == [i \in 1..n |-> <<ChunkStart(m, n, i), ChunkStart(m, n, i + 1)>>]

\* C4: the replay loop processes exactly num_frames-1 chunks, contiguous from
\* 0, the first max_swaps mod (num_frames-1) one longer than the rest, that
\* sum to max_swaps.
C4_ChunkExactness ==
    (Returned /\ LastCall.num_frames >= 2)
        => LastCall.chunks = ExpectedChunks(max_swaps, LastCall.num_frames - 1)

\* C5: visualise(2) returns frame 0, the decoded grid it found, and frame 1,
\* the grid after the one chunk [0, max_swaps).
C5_TwoFrames ==
    (Returned /\ LastCall.num_frames = 2)
        => /\ LastCall.chunks = <<<<0, max_swaps>>>>
           /\ LastCall.frames = <<replace_with_pixels(LastCall.entry, replace_dict),
                                  replace_with_pixels(replaced, replace_dict)>>

\* C6: when every row's trace is empty, visualise(num_frames >= 2) returns
\* num_frames frames, all equal to frame 0.
C6_EmptyTraces ==
    (/\ calls # <<>>
     /\ LastCall.op = "visualise"
     /\ LastCall.num_frames >= 2
     /\ LastCall.outcome \notin {"running", "KeyError"}
     /\ rows >= 1
     /\ max_swaps = 0)
        => /\ LastCall.outcome = "returned"
           /\ Len(LastCall.frames) = LastCall.num_frames
           /\ \A f \in 1..Len(LastCall.frames) :
                LastCall.frames[f] = replace_with_pixels(LastCall.entry, replace_dict)

\* C7: two calls of visualise with the same num_frames on one object return
\* the same frames.
C7_Repeatable ==
    \A j \in 1..Len(calls) : \A k \in 1..Len(calls) :
        (/\ j < k
         /\ calls[j].op = "visualise" /\ calls[j].outcome = "returned"
         /\ calls[k].op = "visualise" /\ calls[k].outcome = "returned"
         /\ calls[j].num_frames = calls[k].num_frames)
            => calls[j].frames = calls[k].frames

\* C8: a step that records traces (sort, called or implied by visualise)
\* leaves replaced as it was; sort changes swaps and max_swaps only.
C8_SortLeavesGrid ==
    [][/\ (swaps' # swaps) => (replaced' = replaced)
       /\ (Len(calls') > Len(calls) /\ calls'[Len(calls')].op = "sort")
            => (/\ replaced' = replaced
                /\ UNCHANGED <<rows, original, replace_dict, pc, locals>>)]_vars

C8_Witness ==
    /\ calls # <<>>
    /\ LastCall.op = "sort"
    /\ LastCall.outcome = "returned"
    /\ rows = 2
    /\ Len(swaps) = 2
    /\ \A r \in 1..rows : swaps[r] # <<>> /\ ~IsSorted(replaced[r])

\* C9: visualise(num_frames < 2) ends at once in an error, with swaps,
\* max_swaps and replaced as they were; it records no traces and enters no loop.
C9_ConfigError ==
    [][(/\ Len(calls') > Len(calls)
        /\ calls'[Len(calls')].op = "visualise"
        /\ calls'[Len(calls')].num_frames < 2)
           => (/\ calls'[Len(calls')].outcome \notin {"running", "returned"}
               /\ pc' = "idle"
               /\ UNCHANGED <<swaps, max_swaps, replaced>>)]_vars

\* C10: sort with a name that is not in sorting_methods raises, whatever the
\* grid; swaps, max_swaps and replaced stay as they were.
C10_UnknownMethod ==
    [][(/\ Len(calls') > Len(calls)
        /\ calls'[Len(calls')].op = "sort"
        /\ calls'[Len(calls')].sort_method \notin RegistryKeys)
           => (/\ calls'[Len(calls')].outcome = "KeyError"
               /\ UNCHANGED <<swaps, max_swaps, replaced>>)]_vars

\* the grid __replace_with_integers builds for the image, before any shuffle
Fresh == replace_with_integers(original).replaced

\* C11: replace_dict[r] maps every rank j to the pixel of column j of row r of
\* the image, in every state (sort and visualise leave it alone); the fresh
\* rank grid decodes to the image, and so does frame 0 of a visualise that
\* finds the fresh grid.
C11_RoundTrip ==
    /\ replace_dict = [r \in 1..rows |-> [j \in Ranks |-> original[r][j + 1]]]
    /\ replace_with_pixels(Fresh, replace_dict) = original
    /\ (pc # "idle" /\ LastCall.entry = Fresh) => frames[1] = original

C11_Witness ==
    /\ pc = "snap_loop"
    /\ rows = 2
    /\ LastCall.entry = Fresh
    /\ Len(frames) >= 2
    /\ \A r \in 1..rows : original[r][1] # original[r][2]

\* a step that starts a call of visualise
VisualiseStarts ==
    /\ Len(calls') > Len(calls)
    /\ calls'[Len(calls')].op = "visualise"

\* C12: a visualise that finds traces records none, looks no method up and
\* replays the traces it found (their shape decides the branch); a visualise
\* on an object on which nothing was called yet records, before frame 0, one
\* trace per row, the one sort_method returns for that row.
C12_ImplicitSort ==
    [][VisualiseStarts =>
        /\ (swaps # <<>>) =>
              /\ UNCHANGED <<swaps, max_swaps, presort, replaced>>
              /\ calls'[Len(calls')].outcome # "KeyError"
              /\ (pc' = "swap_loop") => IsTuple(swaps[1][1])
              /\ (pc' = "snap_loop") => ~IsTuple(swaps[1][1])
        /\ (calls = <<>> /\ rows >= 1) =>
              LET method == calls'[Len(calls')].sort_method
              IN  IF method \in RegistryKeys
                  THEN /\ Len(swaps') = rows
                       /\ \A r \in 1..rows :
                            swaps'[r] = sorting_methods(method, replaced[r]).trace
                       /\ (pc' # "idle") =>
                            frames' = <<replace_with_pixels(replaced, replace_dict)>>
                  ELSE /\ calls'[Len(calls')].outcome = "KeyError"
                       /\ swaps' = <<>>]_vars

C12_Witness ==
    /\ Len(calls) = 2
    /\ calls[1].op = "sort" /\ calls[1].sort_method = "bubble_sort"
    /\ calls[2].op = "visualise" /\ calls[2].sort_method = "counting_sort"
    /\ pc = "swap_loop"
    /\ rows = 2
    /\ Len(swaps) = 2
    /\ Len(chunks) >= 1

\* values written one by one at columns p, p+1, ... taken modulo Columns
RECURSIVE CircularWrite(_, _, _)
CircularWrite(row, values, p) ==
    IF values = <<>> THEN row
    ELSE CircularWrite([row EXCEPT ![(p % Columns) + 1] = values[1][1]],
                       Tail(values), p + 1)

\* a step that runs one iteration of the snapshot loop of a visualise(n >= 2)
SnapIteration ==
    /\ pc = "snap_loop"
    /\ swap_num < max_swaps
    /\ LastCall.num_frames >= 2
    /\ vars' # vars

\* C13: an iteration of the snapshot loop writes, in every row, the values of
\* the row's trace slice [swap_num, swap_end) at columns pos, pos+1, ... modulo
\* Columns, changes no other cell and does not fail, whatever the slice's length.
C13_SnapshotSplice ==
    [][SnapIteration =>
        LET extra == IF remainder > 0 THEN 1 ELSE 0
            swap_end == swap_num + swap_step + extra
        IN  /\ pc' = "snap_loop"
            /\ \A r \in 1..rows :
                 replaced'[r] = CircularWrite(replaced[r],
                                              PySlice(swaps[r], swap_num, swap_end), pos)]_vars

\* C14: during the snapshot loop of a visualise(n >= 2) pos is within
\* 0..Columns-1 and is the sum of the sizes of the chunks processed so far
\* (which is swap_num) modulo Columns, whatever the lengths of the traces.
C14_WriteCursor ==
    (pc = "snap_loop" /\ LastCall.num_frames >= 2)
        => /\ pos \in 0..(Columns - 1)
           /\ pos = swap_num % Columns

\* a step that runs one iteration of the swap loop of a visualise(n >= 2)
SwapIteration ==
    /\ pc = "swap_loop"
    /\ swap_num <= max_swaps
    /\ LastCall.num_frames >= 2
    /\ vars' # vars

\* C15: an iteration of the swap loop processes the chunk [swap_num, end)
\* whose size comes from max_swaps and the number of chunks made so far; in
\* every row it applies the swaps trace[swap_num : min(end, L)), L the length
\* of the row's trace, which are none, and leave the row as it was, once
\* swap_num >= L; the step does not fail.
C15_ShortTraces ==
    [][SwapIteration =>
        LET n == LastCall.num_frames - 1
            size == (max_swaps \div n) + (IF Len(chunks) < max_swaps % n THEN 1 ELSE 0)
            end == swap_num + size
        IN  /\ pc' = "swap_loop"
            /\ chunks' = Append(chunks, <<swap_num, end>>)
            /\ swap_num' = end
            /\ \A r \in 1..rows :
                 LET L == Len(swaps[r])
                 IN  /\ replaced'[r] = apply_swaps(replaced[r],
                                                   SubSeq(swaps[r], swap_num + 1, Min(end, L)))
                     /\ (swap_num >= L) => replaced'[r] = replaced[r]
            /\ frames' = Append(frames, replace_with_pixels(replaced', replace_dict))]_vars

C15_Witness ==
    /\ pc = "swap_loop"
    /\ LastCall.num_frames >= 2
    /\ rows = 2
    /\ Len(swaps[2]) >= 1
    /\ Len(swaps[2]) < max_swaps
    /\ \E i \in 1..Len(chunks) : chunks[i][1] < Len(swaps[2]) /\ Len(swaps[2]) < chunks[i][2]
    /\ swap_num > Len(swaps[2])
    /\ swap_num < max_swaps

\* C16: the chunk loops of a visualise(n >= 2) end: an iteration after which
\* the loop goes on has moved swap_num toward the bound of the loop test (an
\* iteration that leaves swap_num where it was leaves remainder at 0 and
\* swap_step at 0 too, so every later iteration repeats it and the test never
\* fails).
C16_Terminates ==
    [][((SwapIteration \/ SnapIteration) /\ pc' = pc) => swap_num' > swap_num]_vars

=============================================================================
